---- MODULE Spec2Model ----
(***************************************************************************)
(* A model of server.js: the angular-expressions filters registered at     *)
(* module load, and the /generate mail-merge route with its error          *)
(* middleware.                                                             *)
(*                                                                         *)
(* JavaScript strings are sequences of one-character strings; JavaScript   *)
(* values are records tagged by their typeof/kind in field t.              *)
(***************************************************************************)
EXTENDS Integers, Sequences, FiniteSets, TLC

VARIABLES
    filters,    \* expressions.filters: the names registered so far
    boot,       \* number of registration statements of the module executed
    listening,  \* app.listen has run
    nreq,       \* number of /generate requests that have arrived
    phase,      \* per request: "idle", "uploading", "done"
    req,        \* per request: what the client sent
    resp,       \* per request: the responses sent, in order
    merge,      \* per request: what the merge pass did (errors, output, compile calls)
    aborted,    \* per request: the 'aborted' listener has logged
    call,       \* filter harness: the filter call under evaluation
    ret,        \* filter harness: its result
    tz          \* the process time zone, relative to UTC

vars == <<filters, boot, listening, nreq, phase, req, resp, merge, aborted, call, ret, tz>>
serverVars == <<filters, boot, listening, nreq, phase, req, resp, merge, aborted>>
harnessVars == <<call, ret>>

----------------------------------------------------------------------------
(* JavaScript values *)

Null == [t |-> "null"]
Undefined == [t |-> "undefined"]
NaN == [t |-> "NaN"]
Throw == [t |-> "throw"]
StrV(s) == [t |-> "string", s |-> s]
NumV(n) == [t |-> "number", n |-> n]
\* An object with a number of own keys; a cyclic one refers to itself.
ObjV(k, c) == [t |-> "object", keys |-> k, cyclic |-> c]
EmptyObj == ObjV(0, FALSE)

Digits == <<"0", "1", "2", "3", "4", "5", "6", "7", "8", "9">>
IsDigit(c) == \E i \in 1..10 : Digits[i] = c
DigitVal(c) == (CHOOSE i \in 1..10 : Digits[i] = c) - 1

RECURSIVE NatToStr(_)
NatToStr(n) == IF n < 10 THEN <<Digits[n + 1]>>
               ELSE NatToStr(n \div 10) \o <<Digits[(n % 10) + 1]>>

\* String(n) for an integer n
NumToStr(n) == IF n < 0 THEN <<"-">> \o NatToStr(-n) ELSE NatToStr(n)

ObjectObject == <<"[", "o", "b", "j", "e", "c", "t", " ", "O", "b", "j", "e", "c", "t", "]">>

\* String(v)
StringOf(v) ==
    CASE v.t = "string" -> v.s
      [] v.t = "number" -> NumToStr(v.n)
      [] v.t = "NaN" -> <<"N", "a", "N">>
      [] v.t = "null" -> <<"n", "u", "l", "l">>
      [] v.t = "undefined" -> <<"u", "n", "d", "e", "f", "i", "n", "e", "d">>
      [] OTHER -> ObjectObject

\* JavaScript truthiness, as used by n || 0
Falsy(v) ==
    \/ v.t \in {"null", "undefined", "NaN"}
    \/ v.t = "string" /\ v.s = <<>>
    \/ v.t = "number" /\ v.n = 0

ensureString(v) ==
    IF v.t = "null" \/ v.t = "undefined" \/ (v.t = "object" /\ v.keys = 0)
    THEN <<>>
    ELSE StringOf(v)

----------------------------------------------------------------------------
(* Number parsing: parseFloat and parseInt read the longest numeric prefix *)
(* of the string form. The strings of the model hold no "." and no         *)
(* exponent, so both read an optionally signed run of digits.              *)

RECURSIVE DigitRun(_, _)
\* the length of the run of digits of s starting at index i
DigitRun(s, i) == IF i <= Len(s) /\ IsDigit(s[i]) THEN 1 + DigitRun(s, i + 1) ELSE 0

RECURSIVE DigitsVal(_, _, _)
\* the value of the k digits of s that start at index i
DigitsVal(s, i, k) == IF k = 0 THEN 0
                      ELSE DigitsVal(s, i, k - 1) * 10 + DigitVal(s[i + k - 1])

RECURSIVE SkipSpace(_, _)
SkipSpace(s, i) == IF i <= Len(s) /\ s[i] = " " THEN SkipSpace(s, i + 1) ELSE i

ParsePrefix(s) ==
    LET i == SkipSpace(s, 1)
        neg == i <= Len(s) /\ s[i] = "-"
        j == IF i <= Len(s) /\ s[i] \in {"-", "+"} THEN i + 1 ELSE i
        k == DigitRun(s, j)
    IN IF k = 0 THEN NaN
       ELSE NumV(IF neg THEN -DigitsVal(s, j, k) ELSE DigitsVal(s, j, k))

parseFloat(v) == IF v.t = "number" THEN v ELSE ParsePrefix(StringOf(v))

parseInt(v) == IF v.t = "number" THEN v ELSE ParsePrefix(StringOf(v))

----------------------------------------------------------------------------
(* Case conversion over the letters the model's strings use *)

LowerLetters == <<"a", "b", "e", "h", "i", "l", "o", "x">>
UpperLetters == <<"A", "B", "E", "H", "I", "L", "O", "X">>

UpperChar(c) == IF \E i \in 1..Len(LowerLetters) : LowerLetters[i] = c
                THEN UpperLetters[CHOOSE i \in 1..Len(LowerLetters) : LowerLetters[i] = c]
                ELSE c
LowerChar(c) == IF \E i \in 1..Len(UpperLetters) : UpperLetters[i] = c
                THEN LowerLetters[CHOOSE i \in 1..Len(UpperLetters) : UpperLetters[i] = c]
                ELSE c

toUpperCase(s) == [i \in 1..Len(s) |-> UpperChar(s[i])]
toLowerCase(s) == [i \in 1..Len(s) |-> LowerChar(s[i])]

\* s.slice(0, n) for an integer n >= 0
Slice0(s, n) == SubSeq(s, 1, IF n < Len(s) THEN n ELSE Len(s))

----------------------------------------------------------------------------
(* Intl.NumberFormat('vi-VN'): "." groups the integer digits by three and  *)
(* "," starts the fraction. The model's numbers are integers.              *)

RECURSIVE GroupDigits(_)
GroupDigits(d) == IF Len(d) <= 3 THEN d
                  ELSE GroupDigits(SubSeq(d, 1, Len(d) - 3)) \o <<".">> \o SubSeq(d, Len(d) - 2, Len(d))

FormatInt(n) == IF n < 0 THEN <<"-">> \o GroupDigits(NatToStr(-n)) ELSE GroupDigits(NatToStr(n))

Zeros(k) == [i \in 1..k |-> "0"]

----------------------------------------------------------------------------
(* The filters *)

upper(s) == StrV(toUpperCase(ensureString(s)))

lower(s) == StrV(toLowerCase(ensureString(s)))

capitalize(s) ==
    LET t == ensureString(s)
    IN IF t # <<>> THEN StrV(<<UpperChar(t[1])>> \o toLowerCase(Tail(t))) ELSE StrV(t)

\* frac = 0 when the argument is undefined; Intl.NumberFormat raises a RangeError
\* for a digit count that is not a number or is negative
number(val, fracArg) ==
    LET frac == IF fracArg.t = "undefined" THEN NumV(0) ELSE fracArg
        n == parseFloat(val)
    IN IF n.t = "NaN" THEN StrV(ensureString(val))
       ELSE IF frac.t # "number" \/ frac.n < 0 THEN Throw
       ELSE StrV(FormatInt(n.n) \o (IF frac.n > 0 THEN <<",">> \o Zeros(frac.n) ELSE <<>>))

numflex(val) ==
    LET n == parseFloat(val)
    IN IF n.t = "NaN" THEN StrV(ensureString(val)) ELSE StrV(FormatInt(n.n))

\* "NBSP" is the no-break space and "DONG" the currency sign of the vi-VN format
currency(v) ==
    LET n == parseFloat(v)
    IN IF n.t = "NaN" THEN StrV(ensureString(v))
       ELSE StrV(FormatInt(n.n) \o <<"NBSP", "DONG">>)

AllDigits(s, i, j) == \A k \in i..j : IsDigit(s[k])

\* /^\d{1,2}[\/-]\d{1,2}[\/-]\d{4}$/ with the lengths a, b of the first two runs
MatchesAt(s, a, b, seps) ==
    /\ Len(s) = a + b + 6
    /\ AllDigits(s, 1, a)
    /\ s[a + 1] \in seps
    /\ AllDigits(s, a + 2, a + 1 + b)
    /\ s[a + b + 2] \in seps
    /\ AllDigits(s, a + b + 3, a + b + 6)

MatchesDMY(s, seps) == \E a \in 1..2, b \in 1..2 : MatchesAt(s, a, b, seps)

\* s.split(/[\/-]/) of a string that matches
SplitAt(s, a, b) ==
    <<SubSeq(s, 1, a), SubSeq(s, a + 2, a + 1 + b), SubSeq(s, a + b + 3, a + b + 6)>>

RunLengths(s, seps) == CHOOSE x \in (1..2) \X (1..2) : MatchesAt(s, x[1], x[2], seps)

SplitDMY(s, seps) == SplitAt(s, RunLengths(s, seps)[1], RunLengths(s, seps)[2])

IsLeap(y) == (y % 4 = 0 /\ y % 100 # 0) \/ y % 400 = 0

DaysInMonth(y, m) ==
    IF m = 2 THEN (IF IsLeap(y) THEN 29 ELSE 28)
    ELSE IF m \in {4, 6, 9, 11} THEN 30 ELSE 31

InvalidDate == [ok |-> FALSE, y |-> 0, m |-> 0, d |-> 0, utc |-> FALSE]

\* MakeDay: a day past the end of its month runs into the next month
MakeDate(y, m, d, utc) ==
    IF d <= DaysInMonth(y, m) THEN [ok |-> TRUE, y |-> y, m |-> m, d |-> d, utc |-> utc]
    ELSE IF m = 12 THEN [ok |-> TRUE, y |-> y + 1, m |-> 1, d |-> d - DaysInMonth(y, m), utc |-> utc]
    ELSE [ok |-> TRUE, y |-> y, m |-> m + 1, d |-> d - DaysInMonth(y, m), utc |-> utc]

IsISODate(s) ==
    /\ Len(s) = 10
    /\ AllDigits(s, 1, 4) /\ s[5] = "-" /\ AllDigits(s, 6, 7) /\ s[8] = "-" /\ AllDigits(s, 9, 10)

\* new Date(s) for the forms the model's strings take: "M/D/YYYY" is read by
\* the legacy parser as local time, month 1..12 and day 1..31; "YYYY-MM-DD"
\* is read as UTC midnight; anything else is an invalid date.
LegacyDate(y, m, d) ==
    IF m \in 1..12 /\ d \in 1..31 THEN MakeDate(y, m, d, FALSE) ELSE InvalidDate

ISODate(y, m, d) ==
    IF m \in 1..12 /\ d >= 1 /\ d <= DaysInMonth(y, m) THEN MakeDate(y, m, d, TRUE)
    ELSE InvalidDate

AllVal(q) == DigitsVal(q, 1, Len(q))

\* the legacy parser on the parts month, day, year
LegacyParts(p) == LegacyDate(AllVal(p[3]), AllVal(p[1]), AllVal(p[2]))

DateParse(s) ==
    IF MatchesDMY(s, {"/"}) THEN LegacyParts(SplitDMY(s, {"/"}))
    ELSE IF IsISODate(s) THEN ISODate(DigitsVal(s, 1, 4), DigitsVal(s, 6, 2), DigitsVal(s, 9, 2))
    ELSE InvalidDate

\* getDate/getMonth/getFullYear: a UTC midnight is the previous day west of UTC
LocalFields(dt, zone) ==
    IF dt.utc /\ zone = "west" THEN
        IF dt.d > 1 THEN [y |-> dt.y, m |-> dt.m, d |-> dt.d - 1]
        ELSE IF dt.m > 1 THEN [y |-> dt.y, m |-> dt.m - 1, d |-> DaysInMonth(dt.y, dt.m - 1)]
        ELSE [y |-> dt.y - 1, m |-> 12, d |-> 31]
    ELSE [y |-> dt.y, m |-> dt.m, d |-> dt.d]

\* String(n).padStart(2, '0')
Pad2(n) == IF n < 10 THEN <<"0">> \o NatToStr(n) ELSE NatToStr(n)

\* s.replace(pat, rep) with a string pattern: the first occurrence only
Occurrences(s, pat) ==
    {i \in 1..(Len(s) - Len(pat) + 1) : SubSeq(s, i, i + Len(pat) - 1) = pat}

Splice(s, i, n, rep) == SubSeq(s, 1, i - 1) \o rep \o SubSeq(s, i + n, Len(s))

Min(S) == CHOOSE h \in S : \A g \in S : h <= g

ReplaceFirst(s, pat, rep) ==
    IF Occurrences(s, pat) = {} THEN s
    ELSE Splice(s, Min(Occurrences(s, pat)), Len(pat), rep)

DefaultFmt == <<"d", "d", "/", "M", "M", "/", "y", "y", "y", "y">>

\* `${p[1]}/${p[0]}/${p[2]}`
MonthFirst(p) == p[2] \o <<"/">> \o p[1] \o <<"/">> \o p[3]

\* the string handed to new Date: day and month swapped when the pattern matches
SwapDayMonth(s) ==
    IF MatchesDMY(s, {"/", "-"}) THEN MonthFirst(SplitDMY(s, {"/", "-"})) ELSE s

\* fmt.replace('dd', dd).replace('MM', mm).replace('yyyy', yyyy)
FormatFields(fmt, f) ==
    ReplaceFirst(ReplaceFirst(ReplaceFirst(fmt, <<"d", "d">>, Pad2(f.d)),
                              <<"M", "M">>, Pad2(f.m)),
                 <<"y", "y", "y", "y">>, NumToStr(f.y))

\* the filter after new Date(s) gave dt; a fmt that is no string has no replace
DateOf(input, fmt, dt, zone) ==
    IF ~dt.ok THEN StrV(ensureString(input))
    ELSE IF fmt.t # "string" THEN Throw
    ELSE StrV(FormatFields(fmt.s, LocalFields(dt, zone)))

date(input, fmtArg, zone) ==
    DateOf(input, IF fmtArg.t = "undefined" THEN StrV(DefaultFmt) ELSE fmtArg,
           DateParse(SwapDayMonth(ensureString(input))), zone)

\* Math.max(0, NaN) is NaN and slice(0, NaN) is slice(0, 0)
limitTo(v, n) ==
    LET p == parseInt(IF Falsy(n) THEN NumV(0) ELSE n)
        k == IF p.t = "NaN" THEN 0 ELSE (IF p.n > 0 THEN p.n ELSE 0)
    IN StrV(Slice0(ensureString(v), k))

RECURSIVE JsonMembers(_)
\* the k members of an object, each printed as "a": 1 on a line indented by two
JsonMembers(k) ==
    IF k = 0 THEN <<>>
    ELSE (IF k > 1 THEN JsonMembers(k - 1) \o <<",">> ELSE <<>>)
         \o <<"\n", " ", " ", "\"", "a", "\"", ":", " ", "1">>

\* JSON.stringify(v, null, 2); undefined has no JSON text and a cycle throws
json(v) ==
    CASE v.t = "undefined" -> Undefined
      [] v.t \in {"null", "NaN"} -> StrV(<<"n", "u", "l", "l">>)
      [] v.t = "number" -> StrV(NumToStr(v.n))
      [] v.t = "string" -> StrV(<<"\"">> \o v.s \o <<"\"">>)
      [] v.t = "object" /\ v.cyclic -> StrV(ensureString(v))
      [] v.t = "object" /\ v.keys = 0 -> StrV(<<"{", "}">>)
      [] OTHER -> StrV(<<"{">> \o JsonMembers(v.keys) \o <<"\n", "}">>)

\* The registration statements of the module, in source order
FilterOrder == <<"upper", "lower", "capitalize", "number", "numflex", "currency",
                 "date", "limitTo", "json">>
DefaultFilters == {FilterOrder[i] : i \in 1..Len(FilterOrder)}

\* expressions.filters[f](v, arg)
ApplyFilter(f, v, arg, zone) ==
    CASE f = "upper" -> upper(v)
      [] f = "lower" -> lower(v)
      [] f = "capitalize" -> capitalize(v)
      [] f = "number" -> number(v, arg)
      [] f = "numflex" -> numflex(v)
      [] f = "currency" -> currency(v)
      [] f = "date" -> date(v, arg, zone)
      [] f = "limitTo" -> limitTo(v, arg)
      [] f = "json" -> json(v)
      [] OTHER -> Throw

----------------------------------------------------------------------------
(* The filter harness: one filter call on one input, in one time zone *)

\* The largest numeric argument tried for limitTo and number
MaxN == 6

NoRet == [t |-> "none"]
Zones == {"west", "utc", "east"}

Hello == <<"h", "e", "l", "l", "o">>
Hi == <<"h", "i">>

PlainStrings == {<<>>, Hello, Hi, <<"a", "B">>, <<"1", "2", "3", "4", "5", "6", "7">>,
                 <<"-", "5">>, <<"2", "x">>, <<" ", "4", "2">>}

PlainValues == {Null, Undefined, EmptyObj, ObjV(1, FALSE), ObjV(1, TRUE), ObjV(2, FALSE),
                NumV(0), NumV(1000), NumV(-1234567)}
               \cup {StrV(s) : s \in PlainStrings}

\* day and month components as the user may type them
DateParts == {<<"1">>, <<"5">>, <<"0", "5">>, <<"0">>, <<"1", "2">>, <<"1", "3">>,
              <<"2">>, <<"0", "2">>, <<"2", "9">>, <<"3", "0">>, <<"3", "1">>, <<"4", "5">>}
DateYears == {<<"2", "0", "2", "3">>, <<"2", "0", "2", "4">>}
DateSeps == {"/", "-"}

DMYStrings == {a \o <<x>> \o b \o <<y>> \o c :
                 a \in DateParts, b \in DateParts, c \in DateYears, x \in DateSeps, y \in DateSeps}

ISOStrings == {<<"2", "0", "2", "4", "-", "0", "1", "-", "0", "5">>,
               <<"2", "0", "2", "4", "-", "0", "3", "-", "0", "1">>,
               <<"2", "0", "2", "4", "-", "0", "1", "-", "0", "1">>,
               <<"2", "0", "2", "3", "-", "1", "2", "-", "3", "1">>,
               <<"2", "0", "2", "4", "-", "1", "3", "-", "0", "1">>}

OtherDateStrings == {<<>>, Hello, Hi}

DateValues == {StrV(s) : s \in DMYStrings \cup ISOStrings \cup OtherDateStrings}
              \cup {Null, Undefined, EmptyObj}

DateFmts == {Undefined, StrV(<<"y", "y", "y", "y", "-", "M", "M", "-", "d", "d">>), NumV(5)}

LimitArgs == {Undefined, Null} \cup {NumV(n) : n \in -2..MaxN}
             \cup {StrV(<<"3">>), StrV(<<"2", "x">>), StrV(<<"a", "b">>), StrV(<<>>),
                   StrV(<<"-", "1">>), EmptyObj}

FracArgs == {Undefined, NumV(0), NumV(2), NumV(-1), StrV(<<"a">>)}

Calls ==
    [f : {"upper", "lower", "capitalize", "numflex", "currency", "json"},
     v : PlainValues, arg : {Undefined}]
    \cup [f : {"number"}, v : PlainValues, arg : FracArgs]
    \cup [f : {"limitTo"}, v : PlainValues, arg : LimitArgs]
    \cup [f : {"date"}, v : DateValues, arg : DateFmts]

HarnessIdle == [f |-> "none", v |-> Undefined, arg |-> Undefined]

\* One call of a registered filter on its arguments
Invoke ==
    /\ ret = NoRet
    /\ call.f \in filters
    /\ ret' = ApplyFilter(call.f, call.v, call.arg, tz)
    /\ UNCHANGED <<serverVars, call, tz>>

----------------------------------------------------------------------------
(* Templates, data and requests *)

\* The number of /generate requests in flight over a run
MaxReq == 2

Reqs == 1..MaxReq

\* A placeholder expression: a property path, an optional filter, and whether
\* its text is a well-formed expression at all
Expr(path, filter, ok) == [path |-> path, filter |-> filter, ok |-> ok]
ExA == Expr("a", "", TRUE)
ExUpper == Expr("a", "upper", TRUE)
ExJson == Expr("a", "json", TRUE)
ExBogus == Expr("a", "bogus", TRUE)
ExBad == Expr("a", "", FALSE)
ExItems == Expr("items", "", TRUE)

\* A node of the template: a plain tag, or a repeating section with inner tags
Tag(e) == [loop |-> FALSE, e |-> e, inner |-> <<>>]
Loop(e, inner) == [loop |-> TRUE, e |-> e, inner |-> inner]

\* An uploaded buffer: whether PizZip opens it, whether its tags are well
\* delimited, whether the output archive can be generated, and its nodes
Template(zipOk, structOk, genOk, nodes) ==
    [present |-> TRUE, zipOk |-> zipOk, structOk |-> structOk, genOk |-> genOk, nodes |-> nodes]

\* Buffers that fail before the merge pass or after it: not a zip archive; a
\* tag that is never closed; an archive that cannot be written back
FaultyTemplates == {
    Template(FALSE, FALSE, FALSE, <<>>),
    Template(TRUE, FALSE, TRUE, <<Tag(ExA)>>),
    Template(TRUE, TRUE, FALSE, <<Tag(ExA)>>)}

SoundTemplates == {
    Template(TRUE, TRUE, TRUE, <<Tag(ExBad), Tag(ExUpper), Tag(ExBogus)>>),
    Template(TRUE, TRUE, TRUE, <<Tag(ExA), Loop(ExItems, <<ExA, ExJson>>)>>),
    Template(TRUE, TRUE, TRUE, <<Loop(ExItems, <<ExBad>>), Tag(ExA)>>)}

\* req.file of a request that carries no 'template' part
NoFile == [present |-> FALSE, zipOk |-> FALSE, structOk |-> FALSE, genOk |-> FALSE, nodes |-> <<>>]

\* Scopes: functions from keys to values
EmptyScope == [k \in {} |-> Undefined]
ArrV(elems) == [t |-> "array", elems |-> elems]
FullScope == [k \in {"a", "items"} |->
                IF k = "a" THEN StrV(<<"a", "b">>)
                ELSE ArrV(<<EmptyScope, [j \in {"a"} |-> StrV(<<"x">>)]>>)]

\* The text of the 'data' field; "MISSING" stands for a request without one
DataFields == {"MISSING", "", "{oops", "{}", "{\"a\":\"ab\",\"items\":[{},{\"a\":\"x\"}]}"}

\* JSON.parse on the data texts of the model
JSONParse(d) ==
    CASE d = "{}" -> EmptyScope
      [] d = "{\"a\":\"ab\",\"items\":[{},{\"a\":\"x\"}]}" -> FullScope
      [] OTHER -> Throw

FullData == "{\"a\":\"ab\",\"items\":[{},{\"a\":\"x\"}]}"

Requests ==
    [upload : {"ok"}, file : SoundTemplates, data : DataFields]
    \cup [upload : {"ok"}, file : FaultyTemplates \cup {NoFile}, data : {"MISSING", FullData}]
    \cup [upload : {"LIMIT_FILE_SIZE", "LIMIT_UNEXPECTED_FILE", "aborted"},
          file : {NoFile}, data : {"MISSING"}]

NoReq == [upload |-> "none", file |-> NoFile, data |-> "MISSING"]

----------------------------------------------------------------------------
(* The merge pass of doc.render() with the route's parser *)

Lookup(scope, path) == IF path \in DOMAIN scope THEN scope[path] ELSE Undefined

\* expressions.compile(tag)(scope)
Eval(e, scope, fs, zone) ==
    IF ~e.ok THEN Throw
    ELSE IF e.filter = "" THEN Lookup(scope, e.path)
    ELSE IF e.filter \notin fs THEN Throw
    ELSE ApplyFilter(e.filter, Lookup(scope, e.path), Undefined, zone)

\* one more call of expressions.compile on the way to a result
OneMoreCall(up) == [val |-> up.val, calls |-> up.calls + 1]

RECURSIVE GetValue(_, _, _, _, _)
\* The value v of the parser's get at scope k: a null or undefined v sends the
\* scope manager to the enclosing scope
GetValueFrom(v, e, scopes, k, fs, zone) ==
    IF v.t \in {"null", "undefined"} /\ k > 1
    THEN OneMoreCall(GetValue(e, scopes, k - 1, fs, zone))
    ELSE [val |-> v, calls |-> 1]

\* The scope manager asks the parser's get at the innermost scope and then at
\* each enclosing scope in turn; every get calls expressions.compile. Returns
\* the value and the number of calls.
GetValue(e, scopes, k, fs, zone) ==
    GetValueFrom(Eval(e, scopes[k], fs, zone), e, scopes, k, fs, zone)

NoMerge == [errors |-> <<>>, out |-> <<>>, compiles |-> <<>>, ran |-> FALSE]
StartMerge == [errors |-> <<>>, out |-> <<>>, compiles |-> <<>>, ran |-> TRUE]

\* The pass after a tag whose evaluation gave g: a failure is recorded
Record(acc, e, g) ==
    [errors |-> IF g.val.t = "throw" THEN Append(acc.errors, [expression |-> e])
                ELSE acc.errors,
     out |-> Append(acc.out, g.val),
     compiles |-> acc.compiles \o [i \in 1..g.calls |-> e],
     ran |-> TRUE]

\* One tag: its failure is recorded and the pass goes on
RenderTag(acc, e, scopes, fs, zone) ==
    Record(acc, e, GetValue(e, scopes, Len(scopes), fs, zone))

RECURSIVE RenderTags(_, _, _, _, _)
RenderTags(acc, es, scopes, fs, zone) ==
    IF es = <<>> THEN acc
    ELSE RenderTags(RenderTag(acc, Head(es), scopes, fs, zone), Tail(es), scopes, fs, zone)

RECURSIVE RenderReplicas(_, _, _, _, _, _)
\* one replica of the section's inner tags per element, bound to a child scope
RenderReplicas(acc, inner, root, elems, fs, zone) ==
    IF elems = <<>> THEN acc
    ELSE RenderReplicas(RenderTags(acc, inner, <<root, Head(elems)>>, fs, zone),
                        inner, root, Tail(elems), fs, zone)

Last(q) == q[Len(q)]

\* The pass acc after node n's own tag: a section bound to an array is
\* expanded. The data of the model binds a section to an array or to nothing;
\* a section bound to nothing has no replica.
ExpandLoop(acc, n, root, fs, zone) ==
    IF n.loop /\ Last(acc.out).t = "array"
    THEN RenderReplicas(acc, n.inner, root, Last(acc.out).elems, fs, zone)
    ELSE acc

RECURSIVE RenderNodesStopsAtError(_, _, _, _, _)
RenderNodesStopsAtError(acc, nodes, root, fs, zone) ==
    IF nodes = <<>> \/ acc.errors # <<>> THEN acc
    ELSE RenderNodesStopsAtError(
             ExpandLoop(RenderTag(acc, Head(nodes).e, <<root>>, fs, zone),
                        Head(nodes), root, fs, zone),
             Tail(nodes), root, fs, zone)

RECURSIVE RenderNodes(_, _, _, _, _)
\* The nodes in document order
RenderNodes(acc, nodes, root, fs, zone) ==
    IF nodes = <<>> THEN acc
    ELSE RenderNodes(ExpandLoop(RenderTag(acc, Head(nodes).e, <<root>>, fs, zone),
                                Head(nodes), root, fs, zone),
                     Tail(nodes), root, fs, zone)

Render(nodes, data, fs, zone) == RenderNodes(StartMerge, nodes, data, fs, zone)

----------------------------------------------------------------------------
(* The /generate route and the error middleware *)

\* The messages of the reports, without their diacritics
MsgNoFile == "Khong tim thay file template."
MsgRender == "Loi khi render template DOCX (kiem tra placeholders)."
MsgServer == "Loi server khi tao DOCX"
MsgTooLarge == "File qua lon. Gioi han 30MB."
MsgUpload == "Loi upload file"
MsgUnknown == "Loi server khong xac dinh"

NoDetails == [kind |-> "none", items |-> <<>>]
TextDetails == [kind |-> "string", items |-> <<>>]
ListDetails(errs) == [kind |-> "list", items |-> errs]

NoBody == [doc |-> FALSE, out |-> <<>>]
DocBody(out) == [doc |-> TRUE, out |-> out]

Report(status, message, details) ==
    [status |-> status, message |-> message, details |-> details, body |-> NoBody]
Document(out) ==
    [status |-> 200, message |-> "", details |-> NoDetails, body |-> DocBody(out)]

\* let formData = {}; JSON.parse of a non-empty data field, {} when it throws
ParseDataKeepsSample(d) ==
    IF d = "MISSING" \/ d = "" THEN EmptyScope
    ELSE LET j == JSONParse(d) IN IF j = Throw THEN FullScope ELSE j

ParseData(d) ==
    IF d = "MISSING" \/ d = "" THEN EmptyScope
    ELSE LET j == JSONParse(d) IN IF j = Throw THEN EmptyScope ELSE j

\* The catch of doc.render(): details are the error list of the multi error
RenderErrorReport(m) == Report(500, MsgRender, ListDetails(m.errors))

\* After a render without error: generate the archive and send it under the
\* encoded file name; a throw lands in the outer catch
SendDocument(file, m) ==
    IF ~file.genOk THEN <<Report(500, MsgServer, TextDetails)>>
    ELSE <<Document(m.out)>>

RenderBranchNoReturn(file, m) ==
    (IF m.errors # <<>> THEN <<RenderErrorReport(m)>> ELSE <<>>) \o SendDocument(file, m)

RenderBranchIgnoresErrors(file, m) == SendDocument(file, m)

\* try { doc.render() } catch { return 500 } and what follows it
RenderBranch(file, m) ==
    IF m.errors # <<>> THEN <<RenderErrorReport(m)>> ELSE SendDocument(file, m)

\* The handler of POST /generate: the responses it sends and its merge pass
Generate(rq, fs, zone) ==
    IF ~rq.file.present THEN
        [resp |-> <<Report(400, MsgNoFile, NoDetails)>>, merge |-> NoMerge]
    ELSE LET formData == ParseData(rq.data) IN
        IF ~rq.file.zipOk \/ ~rq.file.structOk THEN
            \* new PizZip or new Docxtemplater throws into the outer catch
            [resp |-> <<Report(500, MsgServer, TextDetails)>>, merge |-> NoMerge]
        ELSE LET m == Render(rq.file.nodes, formData, fs, zone)
             IN [resp |-> RenderBranch(rq.file, m), merge |-> m]

\* The error middleware, reached when multer passes an error on
ErrorMiddleware(code) ==
    IF code = "LIMIT_FILE_SIZE" THEN Report(413, MsgTooLarge, TextDetails)
    ELSE IF code = "LIMIT_UNEXPECTED_FILE" THEN Report(400, MsgUpload, TextDetails)
    ELSE Report(500, MsgUnknown, TextDetails)

----------------------------------------------------------------------------
(* The server *)

ListenEarly == boot >= Len(FilterOrder) - 1

\* app.listen is the last statement of the module
CanListen == boot = Len(FilterOrder)

\* expressions.filters.<name> = ..., one statement after the other
RegisterFilter ==
    /\ boot < Len(FilterOrder)
    /\ filters' = filters \cup {FilterOrder[boot + 1]}
    /\ boot' = boot + 1
    /\ UNCHANGED <<listening, nreq, phase, req, resp, merge, aborted, call, ret, tz>>

Listen ==
    /\ ~listening
    /\ CanListen
    /\ listening' = TRUE
    /\ UNCHANGED <<filters, boot, nreq, phase, req, resp, merge, aborted, call, ret, tz>>

\* A client posts to /generate; multer starts reading the upload
Arrive(rq) ==
    /\ listening
    /\ nreq < MaxReq
    /\ nreq' = nreq + 1
    /\ req' = [req EXCEPT ![nreq + 1] = rq]
    /\ phase' = [phase EXCEPT ![nreq + 1] = "uploading"]
    /\ UNCHANGED <<filters, boot, listening, resp, merge, aborted, call, ret, tz>>

\* multer fails: the route handler is skipped and the error middleware answers
UploadFails(r) ==
    /\ phase[r] = "uploading"
    /\ req[r].upload # "ok"
    /\ resp' = [resp EXCEPT ![r] = Append(@, ErrorMiddleware(req[r].upload))]
    /\ phase' = [phase EXCEPT ![r] = "done"]
    /\ UNCHANGED <<filters, boot, listening, nreq, req, merge, aborted, call, ret, tz>>

\* multer succeeds: the handler runs to its end in one turn of the event loop
Handle(r) ==
    /\ phase[r] = "uploading"
    /\ req[r].upload = "ok"
    /\ LET g == Generate(req[r], filters, tz)
       IN /\ resp' = [resp EXCEPT ![r] = @ \o g.resp]
          /\ merge' = [merge EXCEPT ![r] = g.merge]
    /\ phase' = [phase EXCEPT ![r] = "done"]
    /\ UNCHANGED <<filters, boot, listening, nreq, req, aborted, call, ret, tz>>

\* The 'aborted' listener, registered once a file is present: it only logs
Abort(r) ==
    /\ phase[r] = "done"
    /\ req[r].upload = "ok"
    /\ req[r].file.present
    /\ ~aborted[r]
    /\ aborted' = [aborted EXCEPT ![r] = TRUE]
    /\ UNCHANGED <<filters, boot, listening, nreq, phase, req, resp, merge, call, ret, tz>>

Init ==
    /\ filters = {}
    /\ boot = 0
    /\ listening = FALSE
    /\ nreq = 0
    /\ phase = [r \in Reqs |-> "idle"]
    /\ req = [r \in Reqs |-> NoReq]
    /\ resp = [r \in Reqs |-> <<>>]
    /\ merge = [r \in Reqs |-> NoMerge]
    /\ aborted = [r \in Reqs |-> FALSE]
    /\ call = HarnessIdle
    /\ ret = NoRet
    /\ tz = "utc"

Next ==
    \/ RegisterFilter
    \/ Listen
    \/ \E rq \in Requests : Arrive(rq)
    \/ \E r \in Reqs : UploadFails(r)
    \/ \E r \in Reqs : Handle(r)
    \/ \E r \in Reqs : Abort(r)

Spec == Init /\ [][Next]_vars

\* The filters after the module has loaded, called one at a time
FilterInit ==
    /\ filters = DefaultFilters
    /\ boot = Len(FilterOrder)
    /\ listening = TRUE
    /\ nreq = 0
    /\ phase = [r \in Reqs |-> "idle"]
    /\ req = [r \in Reqs |-> NoReq]
    /\ resp = [r \in Reqs |-> <<>>]
    /\ merge = [r \in Reqs |-> NoMerge]
    /\ aborted = [r \in Reqs |-> FALSE]
    /\ call \in Calls
    /\ ret = NoRet
    /\ tz \in Zones

FilterNext == Invoke

FilterSpec == FilterInit /\ [][FilterNext]_vars

----------------------------------------------------------------------------
(* What the claims speak of *)

\* request r reached the route handler and the handler has returned
Handled(r) == phase[r] = "done" /\ req[r].upload = "ok"

Answer(r) == resp[r][1]

RECURSIVE Replicas(_, _, _)
\* the inner tags of a section, once per element, each with its scope chain
Replicas(inner, root, elems) ==
    IF elems = <<>> THEN <<>>
    ELSE [i \in 1..Len(inner) |-> [e |-> inner[i], scopes |-> <<root, Head(elems)>>]]
         \o Replicas(inner, root, Tail(elems))

SectionValue(n, root) == Lookup(root, n.e.path)

RECURSIVE Instances(_, _)
\* every tag of the expanded template in document order, with its scope chain
Instances(nodes, root) ==
    IF nodes = <<>> THEN <<>>
    ELSE <<[e |-> Head(nodes).e, scopes |-> <<root>>]>>
         \o (IF Head(nodes).loop /\ Head(nodes).e.ok /\ SectionValue(Head(nodes), root).t = "array"
             THEN Replicas(Head(nodes).inner, root, SectionValue(Head(nodes), root).elems)
             ELSE <<>>)
         \o Instances(Tail(nodes), root)

\* the value of a tag instance under the fully seeded registry
ValueOf(inst) == GetValue(inst.e, inst.scopes, Len(inst.scopes), DefaultFilters, tz).val
Fails(inst) == ValueOf(inst).t = "throw"

\* one record per failing instance, in document order
FailureRecords(insts) ==
    LET failing == SelectSeq(insts, Fails)
    IN [i \in 1..Len(failing) |-> [expression |-> failing[i].e]]

InstancesOf(r) == Instances(req[r].file.nodes, ParseData(req[r].data))

TwoFailingOneSucceeding == <<Tag(ExBad), Tag(ExUpper), Tag(ExBogus)>>

----------------------------------------------------------------------------
(* C1: every failed /generate request is reported with the message of its   *)
(* own kind of fault: no template (1), malformed container (2), placeholder *)
(* faults (3), the last with a list of records as details; a tag fault      *)
(* raised while the document object is constructed is of kind 3, not 2.     *)

PlaceholderFault(r) ==
    \/ req[r].file.present /\ req[r].file.zipOk /\ ~req[r].file.structOk
    \/ merge[r].errors # <<>>

\* C1: a failed request carries the message of its own kind of fault, and a
\* placeholder fault, also one raised at construction, carries the placeholder
\* message with a list of records
C1_FaultKindsDistinguished ==
    \A r \in Reqs : (Handled(r) /\ Len(resp[r]) > 0 /\ Answer(r).status # 200) =>
        /\ Answer(r).message \in {MsgNoFile, MsgServer, MsgRender}
        /\ (Answer(r).message = MsgNoFile) <=> ~req[r].file.present
        /\ (req[r].file.present /\ ~req[r].file.zipOk) => Answer(r).message = MsgServer
        /\ PlaceholderFault(r) =>
               (Answer(r).message = MsgRender /\ Answer(r).details.kind = "list")

----------------------------------------------------------------------------
(* C2: every request ends in exactly one of: a complete rendered document;  *)
(* a complete document with a list of failed placeholders; a rejection      *)
(* without a document. No document is partial, and a pass with failed       *)
(* placeholders is reported as failed with the full list of failures.       *)

CompleteDocument(r, insts) ==
    /\ Answer(r).body.out = merge[r].out
    /\ Len(Answer(r).body.out) = Len(insts)
    /\ \A i \in 1..Len(Answer(r).body.out) : Answer(r).body.out[i].t # "throw"

\* C2: one response per request, either the complete document or a report
\* without a document; failed placeholders give a 500 with the full list
C2_ThreeOutcomes ==
    \A r \in Reqs : phase[r] = "done" =>
        /\ Len(resp[r]) = 1
        /\ \/ Answer(r).status = 200 /\ Answer(r).body.doc /\ Answer(r).details.kind = "none"
           \/ Answer(r).body.doc /\ Answer(r).details.kind = "list"
           \/ Answer(r).status # 200 /\ ~Answer(r).body.doc
        /\ Answer(r).body.doc => CompleteDocument(r, InstancesOf(r))
        /\ merge[r].ran =>
               LET failures == FailureRecords(InstancesOf(r))
               IN failures # <<>> => /\ Answer(r).status = 500
                                     /\ Answer(r).details = ListDetails(failures)

\* C2 happens: a whole document was sent, and a pass with two failures was reported
C2_Witness ==
    /\ \E r \in Reqs : phase[r] = "done" /\ Len(resp[r]) = 1 /\ Answer(r).body.doc
                       /\ Len(Answer(r).body.out) > 2
    /\ \E r \in Reqs : phase[r] = "done" /\ Len(resp[r]) = 1 /\ Len(merge[r].errors) = 2
                       /\ Answer(r).details.kind = "list"

----------------------------------------------------------------------------
(* C3: a failing tag does not abort the pass: every tag instance is         *)
(* attempted, each failing one yields exactly one record, the records are   *)
(* in document order, the succeeding tags render their values; two failing  *)
(* tags and one succeeding tag report exactly two records in order.         *)

----------------------------------------------------------------------------
(* C4: the registry holds every default filter before a request can arrive, *)
(* no step of a request writes to it, and under every interleaving of the   *)
(* requests each outcome is the one its own template and data give.         *)

OwnOutcome(r) ==
    /\ resp[r] = Generate(req[r], DefaultFilters, tz).resp
    /\ merge[r] = Generate(req[r], DefaultFilters, tz).merge

----------------------------------------------------------------------------
(* C6: within one merge each distinct expression is compiled at most once,  *)
(* however many tags, iterations or scope lookups evaluate it.              *)

----------------------------------------------------------------------------
(* C9: a request that reaches the handler gets exactly one response on      *)
(* every path: 400 without a template, 500 when the container, the          *)
(* construction or the rendering fails, 200 with the document only after    *)
(* rendering and generation completed; an abort changes no response.        *)

RightStatus(r) ==
    /\ Answer(r).status \in {200, 400, 500}
    /\ ~req[r].file.present <=> Answer(r).status = 400
    /\ (req[r].file.present
        /\ (~req[r].file.zipOk \/ ~req[r].file.structOk \/ merge[r].errors # <<>>))
           => Answer(r).status = 500
    /\ Answer(r).status = 200 =>
           /\ req[r].file.present /\ req[r].file.zipOk /\ req[r].file.structOk
           /\ merge[r].ran /\ merge[r].errors = <<>> /\ req[r].file.genOk
           /\ Answer(r).body.doc

\* C9: exactly one response per handled request, with the status of its path,
\* none before the handler ran, and no step changes a response once sent
C9_ExactlyOneResponse ==
    /\ [](\A r \in Reqs : /\ Handled(r) => (Len(resp[r]) = 1 /\ RightStatus(r))
                          /\ phase[r] # "done" => resp[r] = <<>>)
    /\ [][\A r \in Reqs : phase[r] = "done" => resp'[r] = resp[r]]_vars

\* C9 happens: clients aborted after a 500 for failed rendering and after a 200
C9_Witness ==
    /\ \E r \in Reqs : Handled(r) /\ aborted[r] /\ Answer(r).status = 500
                       /\ merge[r].errors # <<>>
    /\ \E r \in Reqs : Handled(r) /\ aborted[r] /\ Answer(r).status = 200

----------------------------------------------------------------------------
(* C10: a request whose data field is missing or is not valid JSON is not   *)
(* rejected: its outcome is the outcome of the same request with data '{}', *)
(* whatever an earlier request carried.                                     *)

WithEmptyData(rq) == [rq EXCEPT !.data = "{}"]

\* C10: a missing, empty or malformed data field gives the outcome of data '{}'
C10_BadDataIsEmptyData ==
    \A r \in Reqs : (Handled(r) /\ req[r].data \in {"MISSING", "", "{oops"}) =>
        /\ resp[r] = Generate(WithEmptyData(req[r]), DefaultFilters, tz).resp
        /\ merge[r] = Generate(WithEmptyData(req[r]), DefaultFilters, tz).merge

\* C10 happens: after a request with full data, the same template with malformed
\* data is merged and answered 200 with another document
C10_Witness ==
    /\ Handled(1) /\ JSONParse(req[1].data) = FullScope /\ merge[1].ran
    /\ Handled(2) /\ req[2].data = "{oops" /\ req[2].file = req[1].file
    /\ merge[2].ran /\ Answer(2).status = 200 /\ Answer(2) # Answer(1)

----------------------------------------------------------------------------
(* C5: every default filter applied to null, undefined or an empty object   *)
(* returns the empty string and never raises.                               *)

\* C5: a default filter applied to null, undefined or {} returns the empty string
C5_NullishGivesEmptyString ==
    (ret # NoRet /\ call.f \in DefaultFilters /\ call.v \in {Null, Undefined, EmptyObj})
        => ret = StrV(<<>>)

----------------------------------------------------------------------------
(* C7: date with the default format returns its input unchanged when the    *)
(* input denotes no real calendar date, and otherwise the zero-padded day,  *)
(* month and year the input denotes, D/M/YYYY and D-M-YYYY read day first.  *)

RealDate(y, m, d) == m \in 1..12 /\ d >= 1 /\ d <= DaysInMonth(y, m)

DayFirst(y, m, d) == Pad2(d) \o <<"/">> \o Pad2(m) \o <<"/">> \o NumToStr(y)

DMYDenoted(s, p) ==
    IF RealDate(AllVal(p[3]), AllVal(p[2]), AllVal(p[1]))
    THEN DayFirst(AllVal(p[3]), AllVal(p[2]), AllVal(p[1]))
    ELSE s

\* what the claim says date(s) is
DateClaimed(s) ==
    IF MatchesDMY(s, {"/", "-"}) THEN DMYDenoted(s, SplitDMY(s, {"/", "-"}))
    ELSE IF IsISODate(s) /\ RealDate(DigitsVal(s, 1, 4), DigitsVal(s, 6, 2), DigitsVal(s, 9, 2))
    THEN DayFirst(DigitsVal(s, 1, 4), DigitsVal(s, 6, 2), DigitsVal(s, 9, 2))
    ELSE s

\* C7: date with the default format returns what the claim says for every string
C7_DateDayFirstOrUnchanged ==
    (ret # NoRet /\ call.f = "date" /\ call.arg = Undefined /\ call.v.t = "string")
        => ret = StrV(DateClaimed(call.v.s))

----------------------------------------------------------------------------
(* C8: limitTo(v, n) is the first max(0, n) characters of the string form   *)
(* of v; a negative, non-numeric or missing n behaves as 0.                 *)

IsNumeral(q) ==
    \/ Len(q) > 0 /\ AllDigits(q, 1, Len(q))
    \/ Len(q) > 1 /\ q[1] = "-" /\ AllDigits(q, 2, Len(q))

\* the n the claim speaks of: the number n is, 0 when it is none
CountClaimed(n) ==
    IF n.t = "number" THEN n.n
    ELSE IF n.t = "string" /\ IsNumeral(n.s) THEN ParsePrefix(n.s).n
    ELSE 0

\* C8: limitTo returns the first max(0, n) characters, n being 0 when it is no number
C8_LimitToFirstN ==
    (ret # NoRet /\ call.f = "limitTo")
        => ret = StrV(Slice0(ensureString(call.v),
                             IF CountClaimed(call.arg) > 0 THEN CountClaimed(call.arg) ELSE 0))

====
